---- MODULE Spec2Model ----
(***************************************************************************)
(* Model of reporter.Reporter (src/reporter.py): the lazily cached access  *)
(* token, vendor list and vendor/region map, the view/generate/confirm     *)
(* token derivation, and the requests make_request posts.                  *)
(*                                                                         *)
(* Python values are modelled as follows.                                  *)
(*   str            a TLA+ string; a formatted string (f-string) is the    *)
(*                  sequence of its pieces, concatenation is \o            *)
(*   None (as text) the marker string None                                 *)
(*   dict           a function from its keys (strings) to its values       *)
(*   list           a sequence                                             *)
(*   Optional[list / dict]   <<>> for None, <<v>> for the value v          *)
(*   XML element    [tag, text, children]                                  *)
(* Every network round trip (requests.post and the inspection of its       *)
(* response) is one step of the caller that makes it.                      *)
(***************************************************************************)
EXTENDS Integers, Sequences, FiniteSets, TLC

(* ------------------------------ bounds --------------------------------- *)
\* public operations invoked on the instance
MaxCalls == 2
\* the server's expiration dates are 0 .. MaxDate; the clock starts at 0 and
\* runs to MaxDate + 1
MaxDate == 1
\* Vendor children of the root element of a vendor-list response
MaxVendors == 2
\* data rows of a downloaded report
MaxRows == 1

(* ----------------------------- callers --------------------------------- *)
Threads == {"t1", "t2"}

(* --------------------------- Python values ----------------------------- *)
None == "<None>"
Unset == "<unset>"
NoneV == <<>>
Some(v) == <<v>>

\* truth value of a str or None
Truthy(v) == v # "" /\ v # None
\* truth value of an Optional list or dict
TruthyColl(c) == c # NoneV /\ c[1] # <<>>

Range(s) == {s[i] : i \in DOMAIN s}

\* {**a, **b}, a.update(b)
Merge(a, b) ==
    [k \in (DOMAIN a) \cup (DOMAIN b) |-> IF k \in DOMAIN b THEN b[k] ELSE a[k]]

(* ------------------------- program constants --------------------------- *)
mode == "Robot.XML"
version == "2.2"
Host == "https://reportingitc-reporter.apple.com"

(* --------------------------- the environment --------------------------- *)
Accounts == {"", "654321"}
SuppliedTokens == {"", "tok0"}
Logins == {[user_id |-> "", password |-> ""],
           [user_id |-> "asdf@asdf.com", password |-> "12345"]}
ServerTokens == {"tokA", "tokB"}
RequestIds == {"rid1", "rid2"}
Dates == 0 .. MaxDate

Elem(tag, text, children) == [tag |-> tag, text |-> text, children |-> children]
Leaf(tag, text) == Elem(tag, text, <<>>)
Xml(root) == [wellformed |-> TRUE, root |-> root]
\* a body that is no XML document (the y/n prompt, a redirect page, nothing)
NotXml == [wellformed |-> FALSE, root |-> Leaf("", None)]
ErrorBody ==
    Xml(Elem("Error", None, <<Leaf("Code", "101"), Leaf("Message", "Invalid command.")>>))

\* date.strftime("%Y-%m-%d") of the server's date d
DateText(d) == ToString(d)

Response(status, headers, body) == [status |-> status, headers |-> headers, body |-> body]
\* the responses with a status of 302 or 404, whatever was asked
Redirected == Response(302, <<>>, NotXml)
Refused == Response(404, <<>>, ErrorBody)

\* an AccessToken element, absent, empty or with a token
TokenElems == {<<>>} \cup {<<Leaf("AccessToken", x)>> : x \in ServerTokens \cup {None}}
\* viewToken responses: the message that there is no token; the token tokA
\* with each expiration date, with no date and with a text that is no date;
\* an empty and an absent AccessToken with the last date; no XML at all
ViewToken(children) == Xml(Elem("ViewToken", None, children))
ViewBodies ==
    {ViewToken(<<Leaf("Message", "You currently don't have an access token.")>>),
     ViewToken(<<Leaf("AccessToken", "tokA")>>),
     ViewToken(<<Leaf("AccessToken", "tokA"), Leaf("ExpirationDate", "soon")>>),
     ViewToken(<<Leaf("AccessToken", None), Leaf("ExpirationDate", DateText(MaxDate))>>),
     ViewToken(<<Leaf("ExpirationDate", DateText(MaxDate))>>),
     NotXml}
        \cup {ViewToken(<<Leaf("AccessToken", "tokA"), Leaf("ExpirationDate", DateText(d))>>) :
                d \in Dates}
ViewResponses == {Response(200, <<>>, b) : b \in ViewBodies} \cup {Redirected, Refused}
\* responses to the first generateToken: the prompt, with or without the header
GenerateResponses ==
    {Response(200, h, NotXml) :
        h \in {<<>>} \cup {[service_request_id |-> r] : r \in RequestIds}}
        \cup {Redirected, Refused}
\* responses to the confirming generateToken: the new token, expiring on the
\* last of the server's dates
ConfirmResponses ==
    {Response(200, <<>>,
              ViewToken(a \o <<Leaf("ExpirationDate", DateText(MaxDate)),
                               Leaf("Message", "Your new access token has been generated.")>>)) :
        a \in TokenElems}
        \cup {Response(200, <<>>, NotXml), Redirected, Refused}

(* ------------------------------ helpers -------------------------------- *)
\* str.capitalize() on the command types the program uses
Capitalize(s) ==
    CASE s = "sales" -> "Sales"
      [] s = "finance" -> "Finance"
      [] OTHER -> s

\* Element.find(tag): <<>> for None, else <<first child so tagged>>
Find(e, tag) ==
    LET hits == {i \in DOMAIN e.children : e.children[i].tag = tag}
    IN IF hits = {} THEN <<>>
       ELSE <<e.children[CHOOSE i \in hits : \A j \in hits : i <= j]>>

\* datetime.strptime(s, "%Y-%m-%d").date(): <<>> when it raises
Strptime(s) ==
    IF \E d \in 0 .. MaxDate + 1 : DateText(d) = s
    THEN <<CHOOSE d \in 0 .. MaxDate + 1 : DateText(d) = s>>
    ELSE <<>>

\* json.dumps(data): one string, here the dict tagged as serialised
JsonDumps(data) == <<"json", data>>
JsonLoads(s) == s[2]

_format_data(data) == [jsonRequest |-> JsonDumps(data)]

\* a raise_for_status that lets every status through
NeverRaises(status) == FALSE
\* response.raise_for_status() raises HTTPError
RaisesForStatus(status) == 400 <= status /\ status < 600

\* a command string with the account after the category
QueryInputAccountLast(acct, cmd_type, command) ==
    <<"[p=Reporter.properties, ", Capitalize(cmd_type), ".">> \o command
        \o (IF Truthy(acct) THEN <<" ", "a=", acct>> ELSE <<>>) \o <<"]">>
\* the command string make_request builds
QueryInput(acct, cmd_type, command) ==
    IF Truthy(acct)
    THEN <<"[p=Reporter.properties, ", "a=", acct, " ", Capitalize(cmd_type), ".">>
            \o command \o <<"]">>
    ELSE <<"[p=Reporter.properties, ", Capitalize(cmd_type), ".">> \o command \o <<"]">>

Endpoint(cmd_type) == <<Host, "/reportservice/", cmd_type, "/v1">>

\* the request make_request posts
Request(acct, cmd_type, command, credentials, extra_params) ==
    [endpoint |-> Endpoint(cmd_type),
     data |-> Merge(_format_data(
                  Merge(Merge([version |-> version, mode |-> mode], credentials),
                        [queryInput |-> QueryInput(acct, cmd_type, command)])),
                    extra_params)]

(* ----------------------- data responses -------------------------------- *)
\* a vendor list of n Vendor elements, no two neighbours alike
VendorNumber(i) == IF i % 2 = 1 THEN "80012345" ELSE "80067891"
VendorListBodies ==
    {Xml(Elem("Vendors", None, [i \in 1 .. n |-> Leaf("Vendor", VendorNumber(i))])) :
        n \in 0 .. MaxVendors}
VendorListResponses ==
    {Response(200, <<>>, b) : b \in VendorListBodies \cup {NotXml}}
        \cup {Redirected, Refused}

RegionElem(code, reports) ==
    Elem("Region", None,
         <<Leaf("Code", code),
           Elem("Reports", None, [i \in DOMAIN reports |-> Leaf("Report", reports[i])])>>)
\* Vendor elements: the two of the repository's fixture, one that repeats an
\* id and carries a child that is no Region, and one without children
Vendor1 ==
    Elem("Vendor", None, <<Leaf("Number", "80012345"),
                           RegionElem("US", <<"Financial">>),
                           RegionElem("JP", <<"Financial">>)>>)
Vendor2 ==
    Elem("Vendor", None, <<Leaf("Number", "80067891"), RegionElem("US", <<"Financial">>)>>)
Vendor1Again ==
    Elem("Vendor", None, <<Leaf("Number", "80012345"),
                           Leaf("Name", "Example"),
                           RegionElem("JP", <<"Sales", "Financial">>)>>)
VendorBare == Elem("Vendor", None, <<>>)
VendorRegionBodies ==
    {Xml(Elem("VendorsAndRegions", None, vs)) :
        vs \in {<<>>, <<Vendor1, Vendor2>>, <<Vendor2, Vendor1, Vendor1Again>>, <<VendorBare>>}}
VendorRegionResponses ==
    {Response(200, <<>>, b) : b \in VendorRegionBodies \cup {NotXml}}
        \cup {Redirected, Refused}

\* report bodies: a gzip stream of tab-separated lines (header first), or
\* bytes that are no gzip stream
ReportHeader == <<"Provider", "Units">>
ReportLine(i) == <<"APPLE", ToString(i)>>
Gzip(lines) == [gzip |-> TRUE, lines |-> lines]
NotGzip == [gzip |-> FALSE, lines |-> <<>>]
ReportBodies ==
    {Gzip(<<>>), NotGzip}
        \cup {Gzip(<<ReportHeader>> \o [i \in 1 .. k |-> ReportLine(i)]) : k \in 0 .. MaxRows}
ReportResponses ==
    {Response(200, <<>>, b) : b \in ReportBodies}
        \cup {Response(302, <<>>, NotGzip), Response(404, <<>>, NotGzip)}

(* ------------------------------ decoders ------------------------------- *)
Raised(exc) == [kind |-> "raise", exc |-> exc, value |-> None]
Returned(v) == [kind |-> "return", exc |-> None, value |-> v]

\* _process_regions(child): <<>> when an index is out of range
RegionIndexes(child) == {i \in DOMAIN child.children : child.children[i].tag = "Region"}
RegionsOk(child) ==
    \A i \in RegionIndexes(child) : Len(child.children[i].children) >= 2
RECURSIVE Filter(_, _)
Filter(s, tag) ==
    IF s = <<>> THEN <<>>
    ELSE (IF Head(s).tag = tag THEN <<Head(s)>> ELSE <<>>) \o Filter(Tail(s), tag)
\* a _process_regions that lists the regions last to first
ProcessRegionsReversed(child) ==
    LET regions == Filter(child.children, "Region")
        n == Len(regions)
    IN [i \in DOMAIN regions |->
           [code |-> regions[n + 1 - i].children[1].text,
            reports |-> [j \in DOMAIN regions[n + 1 - i].children[2].children |->
                            regions[n + 1 - i].children[2].children[j].text]]]
\* _process_regions(child), for a child that RegionsOk
_process_regions(child) ==
    LET regions == Filter(child.children, "Region")
    IN [i \in DOMAIN regions |->
           [code |-> regions[i].children[1].text,
            reports |-> [j \in DOMAIN regions[i].children[2].children |->
                            regions[i].children[2].children[j].text]]]

\* the loop of _obtain_vendor_regions over the first n children of the root
RECURSIVE VendorRegionDict(_, _)
VendorRegionDict(children, n) ==
    IF n = 0 THEN <<>>
    ELSE Merge(VendorRegionDict(children, n - 1),
               [k \in {children[n].children[1].text} |->
                   [id |-> children[n].children[1].text,
                    regions |-> _process_regions(children[n])]])

\* _obtain_vendor_regions after make_request returned
DecodeVendorRegions(body) ==
    IF ~body.wellformed THEN Raised("ParseError")
    ELSE IF \E i \in DOMAIN body.root.children :
                \/ body.root.children[i].children = <<>>
                \/ ~RegionsOk(body.root.children[i])
         THEN Raised("IndexError")
         ELSE Returned(VendorRegionDict(body.root.children, Len(body.root.children)))

\* a decoder that lists the vendors last to first
DecodeVendorListReversed(body) ==
    IF ~body.wellformed THEN Raised("ParseError")
    ELSE Returned([i \in DOMAIN body.root.children |->
                      body.root.children[Len(body.root.children) + 1 - i].text])
\* _obtain_vendor_list after make_request returned
DecodeVendorList(body) ==
    IF ~body.wellformed THEN Raised("ParseError")
    ELSE Returned([i \in DOMAIN body.root.children |-> body.root.children[i].text])

\* _process_gzip(response)
_process_gzip(content) ==
    IF ~content.gzip THEN Raised("BadGzipFile")
    ELSE IF content.lines = <<>> THEN Returned(<<>>)
    ELSE Returned([i \in 1 .. Len(content.lines) - 1 |->
                      [k \in Range(content.lines[1]) |->
                          content.lines[i + 1][CHOOSE c \in DOMAIN content.lines[1] :
                                                  content.lines[1][c] = k]]])


(* ------------------------------- state --------------------------------- *)
VARIABLES
    _access_token,      \* Reporter._access_token
    _vendors,           \* Reporter._vendors
    _vendors_regions,   \* Reporter._vendors_regions
    user_id,            \* Reporter.user_id, Unset when __init__ did not assign it
    password,           \* Reporter.password, likewise
    account,            \* Reporter.account
    today,              \* datetime.now().date()
    callers,            \* the threads that use the instance
    pc,                 \* per caller: where it is in its operation
    op,                 \* per caller: the operation in progress, or the last one
    tok,                \* per caller: credentials['accesstoken'] of its data request
    rid,                \* per caller: service_request_id in _obtain_access_token
    result,             \* per caller: what its last operation returned or raised
    \* history: read by no guard and by no assignment to the variables above
    ctor,               \* the arguments __init__ was called with
    calls,              \* number of operations invoked so far
    sent,               \* per caller: the requests of its operation, in order
    last,               \* per caller: <<the response to the last of them>>
    viewed,             \* per caller: <<what find('ExpirationDate') gave, and on
                        \* which date>> in the derivation in progress or just
                        \* returned
    before,             \* per caller: the caches when its operation began
    started,            \* number of calls of _obtain_access_token so far
    stored,             \* number of them that returned a non-empty token
    cachedExp           \* <<expiration date>> of the unexpired token the last
                        \* derivation took from a viewToken response, if it did

fields == <<_access_token, _vendors, _vendors_regions>>
config == <<user_id, password, account, callers, ctor>>
locals == <<pc, op, tok, rid, result>>
history == <<calls, sent, last, viewed, before, started, stored, cachedExp>>
vars == <<fields, config, today, locals, history>>

Caches == [token |-> _access_token, vendors |-> _vendors, regions |-> _vendors_regions]

NoOp == [name |-> "", args |-> <<>>]
NoResult == [kind |-> "", exc |-> None, value |-> None]

(* --------------------------- construction ------------------------------ *)
\* a constructor that prefers user_id and password to access_token
InitFieldsLoginFirst(a) ==
    /\ _access_token = (IF Truthy(a.user_id) THEN "" ELSE a.access_token)
    /\ user_id = (IF Truthy(a.user_id) \/ ~Truthy(a.access_token) THEN a.user_id ELSE Unset)
    /\ password = (IF Truthy(a.user_id) \/ ~Truthy(a.access_token) THEN a.password ELSE Unset)
    /\ account = a.account
    /\ _vendors = NoneV
    /\ _vendors_regions = NoneV
\* a constructor that stores user_id and password only when given
InitFieldsLoginIfGiven(a) ==
    /\ _access_token = (IF Truthy(a.access_token) THEN a.access_token ELSE "")
    /\ user_id = (IF Truthy(a.user_id) THEN a.user_id ELSE Unset)
    /\ password = (IF Truthy(a.password) THEN a.password ELSE Unset)
    /\ account = a.account
    /\ _vendors = NoneV
    /\ _vendors_regions = NoneV
\* Reporter.__init__ and the class attributes
InitFields(a) ==
    /\ _access_token = (IF Truthy(a.access_token) THEN a.access_token ELSE "")
    /\ user_id = (IF Truthy(a.access_token) THEN Unset ELSE a.user_id)
    /\ password = (IF Truthy(a.access_token) THEN Unset ELSE a.password)
    /\ account = a.account
    /\ _vendors = NoneV
    /\ _vendors_regions = NoneV

InitWith(cs) ==
    /\ \E acct \in Accounts, t \in SuppliedTokens, l \in Logins :
          /\ ctor = [account |-> acct, access_token |-> t,
                     password |-> l.password, user_id |-> l.user_id]
          /\ InitFields(ctor)
    /\ today = 0
    /\ callers = cs
    /\ pc = [t \in Threads |-> "idle"]
    /\ op = [t \in Threads |-> NoOp]
    /\ tok = [t \in Threads |-> ""]
    /\ rid = [t \in Threads |-> ""]
    /\ result = [t \in Threads |-> NoResult]
    /\ calls = 0
    /\ sent = [t \in Threads |-> <<>>]
    /\ last = [t \in Threads |-> <<>>]
    /\ viewed = [t \in Threads |-> <<>>]
    /\ before = [t \in Threads |-> Caches]
    /\ started = 0
    /\ stored = 0
    /\ cachedExp = <<>>

\* one caller: the single-threaded use the class is written for
Init == InitWith({"t1"})

(* ------------------------- steps of a caller --------------------------- *)
\* caller t invokes the operation name(args)
Begin(t, name, args) ==
    /\ t \in callers
    /\ pc[t] = "idle"
    /\ calls < MaxCalls
    /\ calls' = calls + 1
    /\ op' = [op EXCEPT ![t] = [name |-> name, args |-> args]]
    /\ before' = [before EXCEPT ![t] = Caches]
    /\ viewed' = [viewed EXCEPT ![t] = <<>>]
    /\ rid' = [rid EXCEPT ![t] = ""]

\* the operation of t starts with nothing sent
Fresh(t) ==
    /\ sent' = [sent EXCEPT ![t] = <<>>]
    /\ last' = [last EXCEPT ![t] = <<>>]

\* the operation of t ends
End(t, r) ==
    /\ pc' = [pc EXCEPT ![t] = "idle"]
    /\ result' = [result EXCEPT ![t] = r]

\* t goes on to the step at
Goto(t, at) ==
    /\ pc' = [pc EXCEPT ![t] = at]
    /\ result' = [result EXCEPT ![t] = NoResult]

\* a test of the token that takes every token as missing
AlwaysMissing(token) == TRUE
\* `if not self._access_token`
TokenMissing(token) == ~Truthy(token)
\* `if not self._vendors`, `if not self._vendors_regions`
CacheMiss(cache) == ~TruthyColl(cache)

\* an access_token that takes a derivation up where the last one stopped
ReadTokenResuming(t, then) ==
    IF TokenMissing(_access_token)
    THEN /\ Goto(t, IF rid[t] # "" THEN "confirmToken"
                    ELSE IF sent[t] # <<>> THEN "generateToken" ELSE "viewToken")
         /\ started' = started + 1
         /\ tok' = [tok EXCEPT ![t] = ""]
    ELSE /\ then
         /\ tok' = [tok EXCEPT ![t] = _access_token]
         /\ UNCHANGED started
\* an access_token that calls _obtain_access_token on every read
ReadTokenRefreshing(t, then) ==
    IF TokenMissing(_access_token) \/ (cachedExp # <<>> /\ cachedExp[1] <= today)
    THEN /\ Goto(t, "viewToken")
         /\ started' = started + 1
         /\ tok' = [tok EXCEPT ![t] = ""]
    ELSE /\ then
         /\ tok' = [tok EXCEPT ![t] = _access_token]
         /\ UNCHANGED started
\* t reads self.access_token: the property calls _obtain_access_token when
\* the token is missing, and else returns it, after which t does then
ReadToken(t, then) ==
    IF TokenMissing(_access_token)
    THEN /\ Goto(t, "viewToken")
         /\ started' = started + 1
         /\ tok' = [tok EXCEPT ![t] = ""]
    ELSE /\ then
         /\ tok' = [tok EXCEPT ![t] = _access_token]
         /\ UNCHANGED started

\* the operation of t does not read self.access_token
NoToken(t) ==
    /\ tok' = [tok EXCEPT ![t] = ""]
    /\ UNCHANGED started

\* make_request posts req and gets resp
Exchange(t, req, resp) ==
    /\ sent' = [sent EXCEPT ![t] = Append(@, req)]
    /\ last' = [last EXCEPT ![t] = <<resp>>]

\* _obtain_access_token raises exc
DerivationRaises(t, exc) ==
    /\ End(t, Raised(exc))
    /\ UNCHANGED <<fields, tok, rid, stored, cachedExp>>

\* an access_token that stores the derived token only if none was stored
\* meanwhile
DerivationReturnsOnce(t, value, expiration) ==
    /\ _access_token' = (IF TokenMissing(_access_token) THEN value ELSE _access_token)
    /\ stored' = (IF TokenMissing(_access_token) /\ Truthy(value) THEN stored + 1 ELSE stored)
    /\ cachedExp' = (IF TokenMissing(_access_token) THEN expiration ELSE cachedExp)
    /\ tok' = [tok EXCEPT ![t] = _access_token']
    /\ IF op[t].name = "access_token"
       THEN End(t, Returned(_access_token'))
       ELSE Goto(t, "request")
    /\ UNCHANGED <<_vendors, _vendors_regions, rid>>
\* _obtain_access_token returns value: access_token stores it and returns it
DerivationReturns(t, value, expiration) ==
    /\ _access_token' = value
    /\ stored' = (IF Truthy(value) THEN stored + 1 ELSE stored)
    /\ cachedExp' = expiration
    /\ tok' = [tok EXCEPT ![t] = value]
    /\ IF op[t].name = "access_token"
       THEN End(t, Returned(value))
       ELSE Goto(t, "request")
    /\ UNCHANGED <<_vendors, _vendors_regions, rid>>

\* credentials that carry the token field as well
CredentialsWithToken ==
    [userid |-> user_id, password |-> password, accesstoken |-> _access_token]
\* credentials in _obtain_access_token
Credentials == [userid |-> user_id, password |-> password]

\* a comparison that accepts a token expiring today
UnexpiredOrToday(expiration_date, now) == expiration_date >= now
\* a comparison that accepts no token
NeverUnexpired(expiration_date, now) == FALSE
\* `expiration_date > datetime.now().date()`
Unexpired(expiration_date, now) == expiration_date > now

\* what _obtain_access_token does with the viewToken response
ViewTokenResult(resp, now) ==
    IF RaisesForStatus(resp.status) THEN Raised("HTTPError")
    ELSE IF ~resp.body.wellformed THEN Raised("ParseError")
    ELSE LET expiration_date_elem == Find(resp.body.root, "ExpirationDate")
             access_token_elem == Find(resp.body.root, "AccessToken")
         IN IF expiration_date_elem = <<>>
            THEN [kind |-> "generate", exc |-> None, value |-> None]
            ELSE IF Strptime(expiration_date_elem[1].text) = <<>>
            THEN Raised("ValueError")
            ELSE IF Unexpired(Strptime(expiration_date_elem[1].text)[1], now)
            THEN IF access_token_elem = <<>>
                 THEN Raised("AttributeError")
                 ELSE Returned(access_token_elem[1].text)
            ELSE [kind |-> "generate", exc |-> None, value |-> None]

\* a generate step that reads the header whatever the status
GenerateTokenResultAnyStatus(resp) ==
    IF "service_request_id" \notin DOMAIN resp.headers THEN Raised("KeyError")
    ELSE Returned(resp.headers.service_request_id)
\* what _obtain_access_token does with the first generateToken response
GenerateTokenResult(resp) ==
    IF RaisesForStatus(resp.status) THEN Raised("HTTPError")
    ELSE IF "service_request_id" \notin DOMAIN resp.headers THEN Raised("KeyError")
    ELSE Returned(resp.headers.service_request_id)

\* a confirm step that returns None when there is no AccessToken element
ConfirmTokenResultOrNone(resp) ==
    IF RaisesForStatus(resp.status) THEN Raised("HTTPError")
    ELSE IF ~resp.body.wellformed THEN Raised("ParseError")
    ELSE IF Find(resp.body.root, "AccessToken") = <<>> THEN Returned(None)
    ELSE Returned(Find(resp.body.root, "AccessToken")[1].text)
\* a confirm step that returns the Message text
ConfirmTokenResultMessage(resp) ==
    IF RaisesForStatus(resp.status) THEN Raised("HTTPError")
    ELSE IF ~resp.body.wellformed THEN Raised("ParseError")
    ELSE IF Find(resp.body.root, "Message") = <<>> THEN Raised("AttributeError")
    ELSE Returned(Find(resp.body.root, "Message")[1].text)
\* what _obtain_access_token does with the second generateToken response
ConfirmTokenResult(resp) ==
    IF RaisesForStatus(resp.status) THEN Raised("HTTPError")
    ELSE IF ~resp.body.wellformed THEN Raised("ParseError")
    ELSE IF Find(resp.body.root, "AccessToken") = <<>> THEN Raised("AttributeError")
    ELSE Returned(Find(resp.body.root, "AccessToken")[1].text)

ViewRequest(acct, credentials) ==
    Request(acct, "sales", <<"viewToken">>, credentials, <<>>)
GenerateRequest(acct, credentials) ==
    Request(acct, "sales", <<"generateToken">>, credentials, <<>>)
\* a confirming request with the two fields inside the JSON blob
ConfirmRequestInJson(acct, credentials, service_request_id) ==
    Request(acct, "sales", <<"generateToken">>,
            Merge(credentials, [isExistingToken |-> "Y", requestId |-> service_request_id]),
            <<>>)
\* make_request('sales', 'generateToken', credentials, extra_params=params)
ConfirmRequest(acct, credentials, service_request_id) ==
    Request(acct, "sales", <<"generateToken">>, credentials,
            [isExistingToken |-> "Y", requestId |-> service_request_id])

\* _obtain_access_token: the credentials and the viewToken request
viewToken(t) ==
    /\ t \in callers
    /\ pc[t] = "viewToken"
    /\ IF user_id = Unset \/ password = Unset
       THEN /\ DerivationRaises(t, "AttributeError")
            /\ UNCHANGED <<sent, last, viewed>>
       ELSE \E resp \in ViewResponses :
              LET r == ViewTokenResult(resp, today)
              IN /\ Exchange(t, ViewRequest(account, Credentials), resp)
                 /\ viewed' = [viewed EXCEPT ![t] =
                                  IF RaisesForStatus(resp.status) \/ ~resp.body.wellformed
                                  THEN <<>>
                                  ELSE <<[expiration |-> Find(resp.body.root, "ExpirationDate"),
                                          on |-> today]>>]
                 /\ CASE r.kind = "raise" -> DerivationRaises(t, r.exc)
                      [] r.kind = "return" ->
                            DerivationReturns(t, r.value,
                                Strptime(Find(resp.body.root, "ExpirationDate")[1].text))
                      [] OTHER ->
                            /\ Goto(t, "generateToken")
                            /\ UNCHANGED <<fields, tok, rid, stored, cachedExp>>
    /\ UNCHANGED <<config, today, op, calls, before, started>>

\* _obtain_access_token: the first generateToken request
generateToken(t) ==
    /\ t \in callers
    /\ pc[t] = "generateToken"
    /\ \E resp \in GenerateResponses :
          LET r == GenerateTokenResult(resp)
          IN /\ Exchange(t, GenerateRequest(account, Credentials), resp)
             /\ IF r.kind = "raise"
                THEN DerivationRaises(t, r.exc)
                ELSE /\ Goto(t, "confirmToken")
                     /\ rid' = [rid EXCEPT ![t] = r.value]
                     /\ UNCHANGED <<fields, tok, stored, cachedExp>>
    /\ UNCHANGED <<config, today, op, calls, before, started, viewed>>

\* _obtain_access_token: the confirming generateToken request
confirmToken(t) ==
    /\ t \in callers
    /\ pc[t] = "confirmToken"
    /\ \E resp \in ConfirmResponses :
          LET r == ConfirmTokenResult(resp)
          IN /\ Exchange(t, ConfirmRequest(account, Credentials, rid[t]), resp)
             /\ IF r.kind = "raise"
                THEN DerivationRaises(t, r.exc)
                ELSE DerivationReturns(t, r.value, <<>>)
    /\ UNCHANGED <<config, today, op, calls, before, started, viewed>>

\* the access_token property
access_token(t) ==
    /\ Begin(t, "access_token", <<>>)
    /\ Fresh(t)
    /\ ReadToken(t, End(t, Returned(_access_token)))
    /\ UNCHANGED <<fields, config, today, stored, cachedExp>>

\* what a data operation does with the response to its request
DataResult(resp, decoded) ==
    IF RaisesForStatus(resp.status) THEN Raised("HTTPError") ELSE decoded

\* a data request that is posted again when the status is an error
DataExchangeRetrying(t, req, resp) ==
    /\ sent' = [sent EXCEPT ![t] =
                   IF RaisesForStatus(resp.status) THEN @ \o <<req, req>> ELSE Append(@, req)]
    /\ last' = [last EXCEPT ![t] = <<resp>>]
    /\ viewed' = [viewed EXCEPT ![t] = <<>>]
\* t posts its data request: the derivation, if there was one, is over
DataExchange(t, req, resp) ==
    /\ Exchange(t, req, resp)
    /\ viewed' = [viewed EXCEPT ![t] = <<>>]

\* the vendors property, up to the request
vendors(t) ==
    /\ Begin(t, "vendors", <<>>)
    /\ Fresh(t)
    /\ IF CacheMiss(_vendors)
       THEN ReadToken(t, Goto(t, "request"))
       ELSE /\ End(t, Returned(_vendors[1]))
            /\ NoToken(t)
    /\ UNCHANGED <<fields, config, today, stored, cachedExp>>

\* _obtain_vendor_list after self.access_token, and the assignment in vendors
getVendors(t) ==
    /\ t \in callers
    /\ pc[t] = "request"
    /\ op[t].name = "vendors"
    /\ \E resp \in VendorListResponses :
          LET r == DataResult(resp, DecodeVendorList(resp.body))
          IN /\ DataExchange(t, Request(account, "sales", <<"getVendors">>,
                                        [accesstoken |-> tok[t]], <<>>), resp)
             /\ End(t, r)
             /\ _vendors' = (IF r.kind = "return" THEN Some(r.value) ELSE _vendors)
    /\ UNCHANGED <<_access_token, _vendors_regions, config, today, op, tok, rid,
                   calls, before, started, stored, cachedExp>>

\* the vendors_and_regions property, up to the request
vendors_and_regions(t) ==
    /\ Begin(t, "vendors_and_regions", <<>>)
    /\ Fresh(t)
    /\ IF CacheMiss(_vendors_regions)
       THEN ReadToken(t, Goto(t, "request"))
       ELSE /\ End(t, Returned(_vendors_regions[1]))
            /\ NoToken(t)
    /\ UNCHANGED <<fields, config, today, stored, cachedExp>>

\* _obtain_vendor_regions after self.access_token, and the assignment in
\* vendors_and_regions
getVendorsAndRegions(t) ==
    /\ t \in callers
    /\ pc[t] = "request"
    /\ op[t].name = "vendors_and_regions"
    /\ \E resp \in VendorRegionResponses :
          LET r == DataResult(resp, DecodeVendorRegions(resp.body))
          IN /\ DataExchange(t, Request(account, "finance", <<"getVendorsAndRegions">>,
                                        [accesstoken |-> tok[t]], <<>>), resp)
             /\ End(t, r)
             /\ _vendors_regions' =
                    (IF r.kind = "return" THEN Some(r.value) ELSE _vendors_regions)
    /\ UNCHANGED <<_access_token, _vendors, config, today, op, tok, rid,
                   calls, before, started, stored, cachedExp>>

\* arguments of download_sales_report (report_subtype and report_version
\* default to '')
SalesArgs ==
    {[vendor |-> "80012345", report_type |-> "Sales", date_type |-> "Daily",
      date |-> "20200101", report_subtype |-> "", report_version |-> ""]}
\* arguments of download_financial_report
FinancialArgs ==
    {[vendor |-> "80012345", region_code |-> "US", report_type |-> "Financial",
      fiscal_year |-> "2020", fiscal_period |-> "01"]}

SalesCommand(a) ==
    <<"getReport, ", a.vendor, ",", a.report_type, ",", a.report_subtype, ",",
      a.date_type, ",", a.date, ",", a.report_version>>
FinancialCommand(a) ==
    <<"getReport, ", a.vendor, ",", a.region_code, ",", a.report_type, ",",
      a.fiscal_year, ",", a.fiscal_period>>

\* download_sales_report, up to the request
download_sales_report(t) ==
    /\ \E a \in SalesArgs : Begin(t, "download_sales_report", a)
    /\ Fresh(t)
    /\ ReadToken(t, Goto(t, "request"))
    /\ UNCHANGED <<fields, config, today, stored, cachedExp>>

\* download_sales_report, the request and _process_gzip
getSalesReport(t) ==
    /\ t \in callers
    /\ pc[t] = "request"
    /\ op[t].name = "download_sales_report"
    /\ \E resp \in ReportResponses :
          /\ DataExchange(t, Request(account, "sales", SalesCommand(op[t].args),
                                     [accesstoken |-> tok[t]], <<>>), resp)
          /\ End(t, DataResult(resp, _process_gzip(resp.body)))
    /\ UNCHANGED <<fields, config, today, op, tok, rid,
                   calls, before, started, stored, cachedExp>>

\* download_financial_report, up to the request
download_financial_report(t) ==
    /\ \E a \in FinancialArgs : Begin(t, "download_financial_report", a)
    /\ Fresh(t)
    /\ ReadToken(t, Goto(t, "request"))
    /\ UNCHANGED <<fields, config, today, stored, cachedExp>>

\* download_financial_report, the request and _process_gzip
getFinancialReport(t) ==
    /\ t \in callers
    /\ pc[t] = "request"
    /\ op[t].name = "download_financial_report"
    /\ \E resp \in ReportResponses :
          /\ DataExchange(t, Request(account, "finance", FinancialCommand(op[t].args),
                                     [accesstoken |-> tok[t]], <<>>), resp)
          /\ End(t, DataResult(resp, _process_gzip(resp.body)))
    /\ UNCHANGED <<fields, config, today, op, tok, rid,
                   calls, before, started, stored, cachedExp>>

\* make_request called by the user of the class, as the repository's test
\* does: no credentials, no extra_params
RawArgs == {[cmd_type |-> "sales", command |-> <<"getVendors">>]}
make_request(t) ==
    /\ \E a \in RawArgs :
          /\ Begin(t, "make_request", a)
          /\ \E resp \in VendorListResponses :
                /\ sent' = [sent EXCEPT ![t] =
                               <<Request(account, a.cmd_type, a.command, <<>>, <<>>)>>]
                /\ last' = [last EXCEPT ![t] = <<resp>>]
                /\ End(t, DataResult(resp, Returned(resp.status)))
    /\ NoToken(t)
    /\ UNCHANGED <<fields, config, today, stored, cachedExp>>

\* midnight passes. The clock is read in viewToken alone, so a midnight
\* during an operation acts as one just before it or just after it, and one
\* after the last operation changes nothing.
Tick ==
    /\ \A t \in callers : pc[t] = "idle"
    /\ calls < MaxCalls
    /\ today <= MaxDate
    /\ today' = today + 1
    /\ UNCHANGED <<fields, config, locals, history>>

Next ==
    \/ \E t \in Threads : access_token(t)
    \/ \E t \in Threads : viewToken(t)
    \/ \E t \in Threads : generateToken(t)
    \/ \E t \in Threads : confirmToken(t)
    \/ \E t \in Threads : vendors(t)
    \/ \E t \in Threads : getVendors(t)
    \/ \E t \in Threads : vendors_and_regions(t)
    \/ \E t \in Threads : getVendorsAndRegions(t)
    \/ \E t \in Threads : download_sales_report(t)
    \/ \E t \in Threads : getSalesReport(t)
    \/ \E t \in Threads : download_financial_report(t)
    \/ \E t \in Threads : getFinancialReport(t)
    \/ \E t \in Threads : make_request(t)
    \/ Tick

Spec == Init /\ [][Next]_vars

\* two callers use one instance, with no lock between them
InitConc == InitWith(Threads)
\* the steps of callers that read access_token
NextConc ==
    \/ \E t \in Threads : access_token(t)
    \/ \E t \in Threads : viewToken(t)
    \/ \E t \in Threads : generateToken(t)
    \/ \E t \in Threads : confirmToken(t)
SpecConc == InitConc /\ [][NextConc]_vars

(* ===================== properties of the requests ====================== *)
\* the fields json.dumps serialised into jsonRequest
Json(req) == JsonLoads(req.data.jsonRequest)
Command(req) == Json(req).queryInput

IsViewReq(req) == "viewToken" \in Range(Command(req))
IsGenerateReq(req) ==
    "generateToken" \in Range(Command(req)) /\ "requestId" \notin DOMAIN req.data
IsConfirmReq(req) ==
    "generateToken" \in Range(Command(req)) /\ "requestId" \in DOMAIN req.data
IsDerivationReq(req) == IsViewReq(req) \/ IsGenerateReq(req) \/ IsConfirmReq(req)

Kind(req) ==
    CASE IsViewReq(req) -> "view"
      [] IsGenerateReq(req) -> "generate"
      [] IsConfirmReq(req) -> "confirm"
      [] OTHER -> "data"
Kinds(reqs) == [i \in DOMAIN reqs |-> Kind(reqs[i])]

\* the text of the AccessToken element of a response, None without one
AccessTokenText(resp) ==
    IF ~resp.body.wellformed \/ Find(resp.body.root, "AccessToken") = <<>> THEN None
    ELSE Find(resp.body.root, "AccessToken")[1].text

IsErrorStatus(status) == status >= 400 /\ status <= 599
Is2xx(status) == status >= 200 /\ status <= 299

\* the call of _obtain_access_token in t's operation has returned, and its
\* token has not yet been used in a data request
JustDerived(t) ==
    /\ viewed[t] # <<>>
    /\ \/ pc[t] = "request"
       \/ pc[t] = "idle" /\ result[t].kind = "return"

\* the date the viewToken response of t's derivation stated, <<>> without one
ViewedDate(t) ==
    IF viewed[t] = <<>> \/ viewed[t][1].expiration = <<>> THEN <<>>
    ELSE Strptime(viewed[t][1].expiration[1].text)

\* what t's derivation returned is what the access_token property gave
Delivered(t, value) ==
    /\ tok[t] = value
    /\ _access_token = value
    /\ op[t].name = "access_token" => result[t] = Returned(value)

TokenOps ==
    {"access_token", "vendors", "vendors_and_regions",
     "download_sales_report", "download_financial_report"}

(* ============================== claims ================================= *)

\* C1: when the viewToken response carries no ExpirationDate, a derivation
\* that returns has sent exactly view, generate, confirm, in that order, and
\* returns (and access_token gives the caller) the AccessToken text of the
\* confirm response.
C1_NoExistingToken ==
    \A t \in callers :
        (JustDerived(t) /\ viewed[t][1].expiration = <<>>)
            => /\ Kinds(sent[t]) = <<"view", "generate", "confirm">>
               /\ Delivered(t, AccessTokenText(last[t][1]))

C1_Witness ==
    \E t \in callers :
        /\ JustDerived(t)
        /\ viewed[t][1].expiration = <<>>
        /\ op[t].name = "access_token"
        /\ before[t].token = ""
        /\ user_id # ""
        /\ result[t] = Returned("tokB")

C3_ExpiredToken ==
    \A t \in callers :
        (ViewedDate(t) # <<>> /\ ViewedDate(t)[1] <= viewed[t][1].on)
            => /\ Len(sent[t]) = 1 => pc[t] = "generateToken"
               /\ JustDerived(t)
                    => /\ Kinds(sent[t]) = <<"view", "generate", "confirm">>
                       /\ Delivered(t, AccessTokenText(last[t][1]))

\* the view response carried tokA expiring today; tokB of the confirm
\* response is returned
C3_Witness ==
    \E t \in callers :
        /\ JustDerived(t)
        /\ ViewedDate(t) # <<>> /\ ViewedDate(t)[1] = viewed[t][1].on
        /\ op[t].name = "access_token"
        /\ result[t] = Returned("tokB")

\* C4: a client constructed with a non-empty access token keeps exactly that
\* token, access_token returns it, and no call of _obtain_access_token and no
\* view, generate or confirm request is ever made.
C4_SuppliedToken ==
    Truthy(ctor.access_token)
        => /\ _access_token = ctor.access_token
           /\ started = 0
           /\ \A t \in callers :
                /\ pc[t] \notin {"viewToken", "generateToken", "confirmToken"}
                /\ \A i \in DOMAIN sent[t] : ~IsDerivationReq(sent[t][i])
                /\ (pc[t] = "idle" /\ op[t].name = "access_token")
                      => result[t] = Returned(ctor.access_token)
                /\ pc[t] = "request" => tok[t] = ctor.access_token

\* token and login both passed; access_token read after another operation
C4_Witness ==
    /\ Truthy(ctor.access_token)
    /\ Truthy(ctor.user_id)
    /\ calls = MaxCalls
    /\ \E t \in callers :
          /\ pc[t] = "idle"
          /\ op[t].name = "access_token"
          /\ result[t] = Returned("tok0")
          /\ before[t].vendors # NoneV

\* C5 as stated: whenever a request of a public operation gets a non-2xx response,
\* the operation ends raising HTTPError and the three caches hold what they
\* held when the operation began.
C5_AsStated ==
    \A t \in callers :
        (op[t].name \in TokenOps /\ last[t] # <<>> /\ ~Is2xx(last[t][1].status))
            => /\ pc[t] = "idle"
               /\ result[t] = Raised("HTTPError")
               /\ Caches = before[t]

\* C5 amended: whenever a request of an operation gets an HTTP error status
\* (4xx, 5xx), the operation ends there raising HTTPError; the vendor-list
\* and vendor/region caches hold what they held when the operation began, and
\* so does the token, except that the token a derivation completed earlier in
\* the same operation stays cached when the data request that follows fails.
C5_ErrorStatus ==
    \A t \in callers :
        (last[t] # <<>> /\ IsErrorStatus(last[t][1].status))
            => /\ pc[t] = "idle"
               /\ result[t] = Raised("HTTPError")
               /\ _vendors = before[t].vendors
               /\ _vendors_regions = before[t].regions
               /\ \/ _access_token = before[t].token
                  \/ /\ Len(sent[t]) >= 2
                     /\ IsViewReq(sent[t][1])
                     /\ ~IsDerivationReq(sent[t][Len(sent[t])])
                     /\ ~Truthy(before[t].token)
                     /\ _access_token = tok[t]

\* vendors derived the token tokA and then failed at getVendors
C5_Witness ==
    \E t \in callers :
        /\ op[t].name = "vendors"
        /\ pc[t] = "idle"
        /\ last[t] # <<>> /\ last[t][1].status = 404
        /\ result[t] = Raised("HTTPError")
        /\ Kinds(sent[t]) = <<"view", "data">>
        /\ before[t].token = ""
        /\ _access_token = "tokA"
        /\ _vendors = NoneV

\* C6 as stated: _obtain_access_token is called at most once per instance.
C6_AsStated == started <= 1

\* C6 amended: at most one call of _obtain_access_token per instance returns
\* a non-empty token, and once one has, no other is in progress; a call that
\* failed or returned an empty token may be followed by another.
C6_AtMostOneStored ==
    /\ stored <= 1
    /\ stored = 1
         => /\ Truthy(_access_token)
            /\ \A t \in callers :
                  pc[t] \notin {"viewToken", "generateToken", "confirmToken"}
    /\ Truthy(_access_token) /\ ~Truthy(ctor.access_token) => stored = 1

\* the first derivation failed, the second stored a token
C6_Witness == started = 2 /\ stored = 1 /\ Truthy(_access_token)

\* C7: once the token is cached (non-empty), no step changes it, calls
\* _obtain_access_token or sends a view, generate or confirm request (the
\* derivation requests on record were all sent before the step), whatever
\* the date.
C7_CachedTokenImmutable ==
    [][Truthy(_access_token)
          => /\ _access_token' = _access_token
             /\ started' = started
             /\ \A t \in callers :
                   /\ pc'[t] \notin {"viewToken", "generateToken", "confirmToken"}
                   /\ \A i \in DOMAIN sent'[t] :
                         IsDerivationReq(sent'[t][i])
                            => i \in DOMAIN sent[t] /\ sent[t][i] = sent'[t][i]
                   /\ pc'[t] = "request" => tok'[t] = _access_token]_vars

\* a token taken from a viewToken response is cached, the date is past its
\* expiration date, and an operation begun since is about to send its data
\* request with it
C7_Witness ==
    /\ Truthy(_access_token)
    /\ cachedExp # <<>>
    /\ today > cachedExp[1]
    /\ \E t \in callers :
          /\ pc[t] = "request"
          /\ sent[t] = <<>>
          /\ tok[t] = _access_token

\* C8 as stated: once vendors (vendors_and_regions) has stored a result,
\* whatever it is, every later call returns that result without a request.
C8_WriteOnce ==
    \A t \in callers :
        /\ (op[t].name = "vendors" /\ before[t].vendors # NoneV)
              => /\ pc[t] = "idle"
                 /\ sent[t] = <<>>
                 /\ result[t] = Returned(before[t].vendors[1])
        /\ (op[t].name = "vendors_and_regions" /\ before[t].regions # NoneV)
              => /\ pc[t] = "idle"
                 /\ sent[t] = <<>>
                 /\ result[t] = Returned(before[t].regions[1])

\* C9: with an account, every command string sent starts with
\* '[p=Reporter.properties, ', 'a=<account> ', then the capitalized category;
\* without one, the category follows the opening at once and no command
\* string has an account segment.
C9_AccountSegment ==
    \A t \in callers : \A i \in DOMAIN sent[t] :
        LET q == Command(sent[t][i])
            category == IF sent[t][i].endpoint[3] = "sales" THEN "Sales" ELSE "Finance"
        IN /\ sent[t][i].endpoint[3] \in {"sales", "finance"}
           /\ q[1] = "[p=Reporter.properties, "
           /\ IF account # ""
              THEN SubSeq(q, 2, 5) = <<"a=", account, " ", category>>
              ELSE q[2] = category /\ "a=" \notin Range(q)

\* an operation on a client with an account sent view, generate, confirm and
\* its data request
C9_Witness ==
    /\ account = "654321"
    /\ \E t \in callers :
          /\ Kinds(sent[t]) = <<"view", "generate", "confirm", "data">>
          /\ op[t].name = "vendors_and_regions"

\* the client was constructed without token, user_id and password
NoCredentials ==
    ~Truthy(ctor.access_token) /\ ctor.user_id = "" /\ ctor.password = ""
\* t's operation had to call _obtain_access_token and is past its first step
PastFirstStep(t) ==
    /\ op[t].name \in TokenOps
    /\ ~Truthy(before[t].token)
    /\ op[t].name = "vendors" => ~TruthyColl(before[t].vendors)
    /\ op[t].name = "vendors_and_regions" => ~TruthyColl(before[t].regions)
    /\ pc[t] # "viewToken"

\* C10 as stated: on a client constructed without credentials, an operation
\* that needs a token ends raising ConfigurationError.
C10_AsStated ==
    \A t \in callers :
        (NoCredentials /\ PastFirstStep(t) /\ pc[t] = "idle")
            => result[t] = Raised("ConfigurationError")

\* C10 amended: on a client constructed without credentials, an operation
\* that needs a token raises no configuration error: it sends the viewToken
\* request with empty userid and password, and goes on as the responses
\* decide.
C10_EmptyLoginIsSent ==
    \A t \in callers :
        (NoCredentials /\ PastFirstStep(t))
            => /\ sent[t] # <<>>
               /\ IsViewReq(sent[t][1])
               /\ Json(sent[t][1]).userid = ""
               /\ Json(sent[t][1]).password = ""
               /\ result[t].exc # "ConfigurationError"

\* the server refused the empty login
C10_Witness ==
    /\ NoCredentials
    /\ \E t \in callers :
          /\ PastFirstStep(t)
          /\ pc[t] = "idle"
          /\ Kinds(sent[t]) = <<"view">>
          /\ last[t][1].status = 404
          /\ result[t] = Raised("HTTPError")

\* the children of the root element of the response t's operation got last
LastChildren(t) == last[t][1].body.root.children
\* t's operation op has returned a value it decoded from a response
Decoded(t, name) ==
    /\ op[t].name = name
    /\ pc[t] = "idle"
    /\ result[t].kind = "return"
    /\ sent[t] # <<>>

\* C11: when vendors returns after its getVendors request, the value is a
\* sequence with one string per child of the response's root, the i-th string
\* being the text of the i-th child, for any number of children (none
\* included); the same sequence is stored in the vendor-list cache.
C11_VendorListDecoding ==
    \A t \in callers :
        Decoded(t, "vendors")
            => /\ Len(result[t].value) = Len(LastChildren(t))
               /\ \A i \in 1 .. Len(LastChildren(t)) :
                     result[t].value[i] = LastChildren(t)[i].text
               /\ _vendors = Some(result[t].value)

\* vendors first decoded a list without vendors, and now one of MaxVendors
\* vendors, the first two of them different
C11_Witness ==
    \E t \in callers :
        /\ Decoded(t, "vendors")
        /\ before[t].vendors = Some(<<>>)
        /\ Len(LastChildren(t)) = MaxVendors
        /\ result[t].value[1] # result[t].value[2]

\* the id of a Vendor element, and what the claim says of its regions
VendorId(v) == v.children[1].text
RegionPlaces(v) == {j \in DOMAIN v.children : v.children[j].tag = "Region"}
\* the place among the regions of the Region-tagged child j of v
RegionRank(v, j) == Cardinality({k \in RegionPlaces(v) : k <= j})
RegionEntry(r) ==
    [code |-> r.children[1].text,
     reports |-> [j \in DOMAIN r.children[2].children |-> r.children[2].children[j].text]]
\* entry is {id, regions} of the Vendor element v: one region per
\* Region-tagged child, in document order, the other children left out
EntryOf(entry, v) ==
    /\ entry.id = VendorId(v)
    /\ Len(entry.regions) = Cardinality(RegionPlaces(v))
    /\ \A j \in RegionPlaces(v) :
          entry.regions[RegionRank(v, j)] = RegionEntry(v.children[j])

\* C12 as stated: the decoded result has one key per distinct vendor id and
\* maps the id of every Vendor element of the response to {id, regions} of
\* that element.
C12_AsStated ==
    \A t \in callers :
        Decoded(t, "vendors_and_regions")
            => /\ DOMAIN result[t].value
                    = {VendorId(LastChildren(t)[i]) : i \in DOMAIN LastChildren(t)}
               /\ \A i \in DOMAIN LastChildren(t) :
                     EntryOf(result[t].value[VendorId(LastChildren(t)[i])],
                             LastChildren(t)[i])

\* C12 amended: the decoded result has one key per distinct vendor id and
\* maps each id to {id, regions} of the last Vendor element of the response
\* that carries this id: one region per Region-tagged child in document
\* order, code the text of its first child, reports the texts of the children
\* of its second child, children not tagged Region left out. The result is
\* what the vendor/region cache then holds.
C12_VendorRegionDecoding ==
    \A t \in callers :
        Decoded(t, "vendors_and_regions")
            => /\ DOMAIN result[t].value
                    = {VendorId(LastChildren(t)[i]) : i \in DOMAIN LastChildren(t)}
               /\ \A i \in DOMAIN LastChildren(t) :
                     (\A k \in DOMAIN LastChildren(t) :
                         k > i => VendorId(LastChildren(t)[k]) # VendorId(LastChildren(t)[i]))
                        => EntryOf(result[t].value[VendorId(LastChildren(t)[i])],
                                   LastChildren(t)[i])
               /\ _vendors_regions = Some(result[t].value)

\* three Vendor elements of two ids were decoded; the last has a child that
\* is no Region and a region of two reports
C12_Witness ==
    \E t \in callers :
        /\ Decoded(t, "vendors_and_regions")
        /\ Len(LastChildren(t)) = 3
        /\ Cardinality(DOMAIN result[t].value) = 2
        /\ \E j \in DOMAIN LastChildren(t)[3].children :
              LastChildren(t)[3].children[j].tag # "Region" /\ j > 1
        /\ Len(result[t].value["80012345"].regions) = 1
        /\ Len(result[t].value["80012345"].regions[1].reports) = 2

\* the request t's step has just posted
Posted(t) == sent'[t][Len(sent'[t])]
ConfirmFields == {"isExistingToken", "requestId"}

\* C13: the request posted from the generate step carries neither
\* isExistingToken nor requestId, and a response to it with the
\* service_request_id header leads on to the confirm step whatever its body
\* is (the body is not parsed: the step raises HTTPError or KeyError alone);
\* the request posted from the confirm step comes after view and generate,
\* when the generate response is the last one received, and carries
\* isExistingToken = 'Y' and requestId = the service_request_id header of
\* that response as form fields beside jsonRequest, not inside it.
C13_ConfirmCarriesRequestId ==
    [][\A t \in callers :
          /\ (pc[t] = "generateToken" /\ pc'[t] # "generateToken")
                => /\ sent'[t] = Append(sent[t], Posted(t))
                   /\ DOMAIN Posted(t).data = {"jsonRequest"}
                   /\ DOMAIN Json(Posted(t)) \cap ConfirmFields = {}
                   /\ "generateToken" \in Range(Command(Posted(t)))
                   /\ IF ~IsErrorStatus(last'[t][1].status)
                         /\ "service_request_id" \in DOMAIN last'[t][1].headers
                      THEN pc'[t] = "confirmToken"
                      ELSE pc'[t] = "idle" /\ result'[t].exc \in {"HTTPError", "KeyError"}
          /\ (pc[t] = "confirmToken" /\ pc'[t] # "confirmToken")
                => /\ Kinds(sent[t]) = <<"view", "generate">>
                   /\ ~IsErrorStatus(last[t][1].status)
                   /\ sent'[t] = Append(sent[t], Posted(t))
                   /\ "generateToken" \in Range(Command(Posted(t)))
                   /\ DOMAIN Posted(t).data = {"jsonRequest"} \cup ConfirmFields
                   /\ Posted(t).data.isExistingToken = "Y"
                   /\ Posted(t).data.requestId = last[t][1].headers.service_request_id
                   /\ DOMAIN Json(Posted(t)) \cap ConfirmFields = {}
          /\ \A i \in DOMAIN sent'[t] :
                IsConfirmReq(sent'[t][i]) => i = 3 /\ IsGenerateReq(sent'[t][2])]_vars

\* the generate response had no XML body and the header rid2, and the
\* confirm request sent after it brought a token
C13_Witness ==
    \E t \in callers :
        /\ Kinds(sent[t]) = <<"view", "generate", "confirm">>
        /\ sent[t][3].data.requestId = "rid2"
        /\ rid[t] = "rid2"
        /\ pc[t] = "idle"
        /\ result[t] = Returned("tokA")

DataOps ==
    {"vendors", "vendors_and_regions", "download_sales_report", "download_financial_report"}

\* C14 as stated: a data operation is about to send, or has sent, its data
\* request only with a token cached, and the accesstoken the request carries
\* is the cached token.
C14_DataRequestsCarryCachedToken ==
    \A t \in callers :
        op[t].name \in DataOps
            => /\ pc[t] = "request" => (Truthy(_access_token) /\ tok[t] = _access_token)
               /\ \A i \in DOMAIN sent[t] :
                     Kind(sent[t][i]) = "data"
                        => /\ Truthy(_access_token)
                           /\ Json(sent[t][i]).accesstoken = _access_token

\* the last request of t's operation is one of its derivation and got an
\* HTTP error status
DerivationRefused(t) ==
    /\ sent[t] # <<>>
    /\ IsDerivationReq(sent[t][Len(sent[t])])
    /\ IsErrorStatus(last[t][1].status)

\* C15: when the view, the generate or the confirm request of a derivation
\* gets an HTTP error status, the operation that triggered the derivation
\* has ended raising HTTPError; the requests it sent are the sequence view,
\* generate, confirm up to the failing one, each once (nothing re-sent,
\* nothing after it), and no token was stored.
C15_DerivationAborts ==
    \A t \in callers :
        DerivationRefused(t)
            => /\ pc[t] = "idle"
               /\ result[t] = Raised("HTTPError")
               /\ Kinds(sent[t]) = SubSeq(<<"view", "generate", "confirm">>, 1, Len(sent[t]))
               /\ _access_token = before[t].token
               /\ op[t].name \in TokenOps

\* a report download triggered the derivation, whose generate request was
\* refused
C15_Witness ==
    \E t \in callers :
        /\ DerivationRefused(t)
        /\ Kinds(sent[t]) = <<"view", "generate">>
        /\ op[t].name = "download_sales_report"
        /\ result[t] = Raised("HTTPError")

\* the last response t's operation got is one the derivation cannot go on
\* from: a view response with a date after today, or a confirm response,
\* without AccessToken element; a generate response without the
\* service_request_id header
Unreadable(t) ==
    /\ sent[t] # <<>>
    /\ ~IsErrorStatus(last[t][1].status)
    /\ LET req == sent[t][Len(sent[t])]
           resp == last[t][1]
       IN \/ /\ IsViewReq(req)
             /\ ViewedDate(t) # <<>> /\ ViewedDate(t)[1] > viewed[t][1].on
             /\ Find(resp.body.root, "AccessToken") = <<>>
          \/ /\ IsConfirmReq(req)
             /\ resp.body.wellformed
             /\ Find(resp.body.root, "AccessToken") = <<>>
          \/ /\ IsGenerateReq(req)
             /\ "service_request_id" \notin DOMAIN resp.headers

\* C16: when the view response with a date after today, or the confirm
\* response, has no AccessToken element, or the generate response has no
\* service_request_id header, the operation has ended raising an error
\* (AttributeError, resp. KeyError), the request that got this response is
\* the last of the derivation, and no token is cached.
C16_MissingTokenOrHeader ==
    \A t \in callers :
        Unreadable(t)
            => /\ pc[t] = "idle"
               /\ result[t].kind = "raise"
               /\ result[t].exc =
                     (IF IsGenerateReq(sent[t][Len(sent[t])]) THEN "KeyError" ELSE "AttributeError")
               /\ Kinds(sent[t]) = SubSeq(<<"view", "generate", "confirm">>, 1, Len(sent[t]))
               /\ ~Truthy(_access_token)
               /\ _access_token = before[t].token

\* the confirm response of a derivation begun by access_token had no
\* AccessToken element
C16_Witness ==
    \E t \in callers :
        /\ Unreadable(t)
        /\ Kinds(sent[t]) = <<"view", "generate", "confirm">>
        /\ last[t][1].status = 200
        /\ op[t].name = "access_token"
        /\ result[t] = Raised("AttributeError")

\* C17 (two callers, no lock): a caller starts a derivation whenever it finds
\* no token cached, also while the other caller's derivation is in progress,
\* and a derivation that returns stores the token of the response it read
\* over whatever the other caller stored meanwhile: the cached token is that
\* of the caller that wrote last.
C17_LastWriterWins ==
    [][\A t \in callers :
          /\ (pc[t] = "idle" /\ pc'[t] = "viewToken")
                => /\ ~Truthy(_access_token)
                   /\ started' = started + 1
          /\ (pc[t] \in {"viewToken", "confirmToken"} /\ pc'[t] = "idle"
                /\ result'[t].kind = "return")
                => /\ _access_token' = AccessTokenText(last'[t][1])
                   /\ result'[t].value = AccessTokenText(last'[t][1])]_vars

\* both callers found no token and each ran its own derivation, t1 sending
\* view, generate, confirm and t2 view alone; t1 got tokB, t2 got tokA, and
\* tokA, written last over tokB, is cached
C17_Witness ==
    /\ callers = {"t1", "t2"}
    /\ before["t1"].token = "" /\ before["t2"].token = ""
    /\ Kinds(sent["t1"]) = <<"view", "generate", "confirm">>
    /\ Kinds(sent["t2"]) = <<"view">>
    /\ result["t1"] = Returned("tokB")
    /\ result["t2"] = Returned("tokA")
    /\ started = 2
    /\ stored = 2
    /\ _access_token = "tokA"

DerivationSteps == {"viewToken", "generateToken", "confirmToken"}

\* C18: a derivation step that raises leaves the token cache as it was,
\* empty; an operation that needs a token and finds none starts at the view
\* step with nothing sent and no request id kept, whatever happened before;
\* the generate step is entered from the view step alone and the confirm
\* step from the generate step alone.
C18_FailedDerivationRestarts ==
    [][\A t \in callers :
          /\ (pc[t] \in DerivationSteps /\ pc'[t] = "idle" /\ result'[t].kind = "raise")
                => /\ _access_token' = _access_token
                   /\ ~Truthy(_access_token')
                   /\ stored' = stored
          /\ (pc[t] = "idle" /\ pc'[t] # "idle" /\ ~Truthy(_access_token))
                => /\ pc'[t] = "viewToken"
                   /\ op'[t].name \in TokenOps
                   /\ sent'[t] = <<>>
                   /\ rid'[t] = ""
                   /\ started' = started + 1
          /\ (pc'[t] = "generateToken" /\ pc[t] # pc'[t])
                => pc[t] = "viewToken" /\ Kinds(sent'[t]) = <<"view">>
          /\ (pc'[t] = "confirmToken" /\ pc[t] # pc'[t])
                => pc[t] = "generateToken" /\ Kinds(sent'[t]) = <<"view", "generate">>]_vars

\* the first derivation of the instance stored nothing; the second one,
\* begun by vendors, sent its own view request before generate and confirm
\* and stored a token
C18_Witness ==
    \E t \in callers :
        /\ started = 2
        /\ stored = 1
        /\ ~Truthy(before[t].token)
        /\ op[t].name = "vendors"
        /\ Kinds(sent[t]) = <<"view", "generate", "confirm">>
        /\ pc[t] = "request"
        /\ Truthy(_access_token)

LoginFields == {"userid", "password"}
CommonFields == {"version", "mode", "queryInput"}

\* C19: every view, generate and confirm request is posted to the sales
\* endpoint and carries userid and password, the instance's, and no
\* accesstoken; every other request of vendors, vendors_and_regions and the
\* two downloads carries accesstoken and neither userid nor password, in the
\* JSON blob or beside it.
C19_LoginOnlyInDerivation ==
    \A t \in callers : \A i \in DOMAIN sent[t] :
        LET req == sent[t][i]
        IN IF IsDerivationReq(req)
           THEN /\ req.endpoint = Endpoint("sales")
                /\ DOMAIN Json(req) = CommonFields \cup LoginFields
                /\ Json(req).userid = user_id
                /\ Json(req).password = password
                /\ DOMAIN req.data \subseteq {"jsonRequest"} \cup ConfirmFields
                /\ op[t].name \in TokenOps
           ELSE op[t].name \in DataOps
                   => /\ DOMAIN Json(req) = CommonFields \cup {"accesstoken"}
                      /\ DOMAIN req.data = {"jsonRequest"}
                      /\ i = Len(sent[t])

\* vendors_and_regions derived the token with the login and then sent its
\* data request with the token
C19_Witness ==
    \E t \in callers :
        /\ op[t].name = "vendors_and_regions"
        /\ user_id = "asdf@asdf.com"
        /\ Kinds(sent[t]) = <<"view", "generate", "confirm", "data">>
        /\ Json(sent[t][3]).password = "12345"
        /\ Json(sent[t][4]).accesstoken = "tokB"
        /\ sent[t][4].endpoint = Endpoint("finance")

Downloads == {"download_sales_report", "download_financial_report"}

\* C20: a report download begun with a token cached leaves the token, the
\* vendor list and the vendor/region cache as they were; before its request
\* it has sent nothing, and when it has ended, with a result or an error, it
\* has sent one request: getReport with the cached token, to the sales
\* endpoint for download_sales_report and to the finance endpoint for
\* download_financial_report.
C20_DownloadsTouchNoCache ==
    \A t \in callers :
        (op[t].name \in Downloads /\ Truthy(before[t].token))
            => /\ Caches = before[t]
               /\ pc[t] \in {"request", "idle"}
               /\ pc[t] = "request" => sent[t] = <<>>
               /\ pc[t] = "idle"
                    => /\ Len(sent[t]) = 1
                       /\ sent[t][1].endpoint =
                             Endpoint(IF op[t].name = "download_sales_report"
                                      THEN "sales" ELSE "finance")
                       /\ "getReport, " \in Range(Command(sent[t][1]))
                       /\ Json(sent[t][1]).accesstoken = before[t].token
                       /\ result[t].kind \in {"return", "raise"}

\* the vendor list was cached with a supplied token; the financial download
\* that followed was refused
C20_Witness ==
    \E t \in callers :
        /\ op[t].name = "download_financial_report"
        /\ before[t].token = "tok0"
        /\ TruthyColl(before[t].vendors)
        /\ pc[t] = "idle"
        /\ last[t][1].status = 404
        /\ result[t] = Raised("HTTPError")
        /\ Len(sent[t]) = 1
====
